---- MODULE Spec2Model ----
(***************************************************************************)
(* Resume-to-portfolio backend (src/main.py, src/deployer.py).             *)
(*                                                                         *)
(* Five specifications over one set of variables:                          *)
(*   SpecChunk   chunk_text applied to bounded texts                       *)
(*   SpecParse   safe_parse_llm_json applied to bounded response texts     *)
(*   SpecGen     the retry loop of generate_code_from_summary              *)
(*   SpecDeploy  POST /deploy-site/ and deployer.deploy_html_code          *)
(*   SpecUpload  POST /upload-resume/ and its temporary file               *)
(* Python strings are sequences of characters (chunker) or of lexemes      *)
(* (response texts).  A specification leaves the variables of the other    *)
(* four at their idle values.                                              *)
(***************************************************************************)
EXTENDS Integers, Sequences, FiniteSets, TLC

VARIABLES
    \* chunk_text
    text, max_chunk_size, chunks, cpc,
    \* safe_parse_llm_json
    raw, parsed_json, presult, ppc,
    \* generate_code_from_summary
    script, attempt, calls, gresult, gpc,
    \* deploy
    dsite, dfs, dresp, dpc, site_id, netlify,
    \* upload_resume
    upload, upath, inode, handle, ufs, upc, uresp, uread, uleft

chunkVars  == <<text, max_chunk_size, chunks, cpc>>
parseVars  == <<raw, parsed_json, presult, ppc>>
genVars    == <<script, attempt, calls, gresult, gpc>>
deployVars == <<dsite, dfs, dresp, dpc, site_id, netlify>>
uploadVars == <<upload, upath, inode, handle, ufs, upc, uresp, uread, uleft>>
vars == <<chunkVars, parseVars, genVars, deployVars, uploadVars>>

SeqsUpTo(S, n) == UNION {[1..k -> S] : k \in 0..n}
Range(s) == {s[i] : i \in 1..Len(s)}

(***************************************************************************)
(* chunk_text (src/main.py 67-77)                                          *)
(***************************************************************************)
MaxTextLen == 5
MaxChunkSize == 3

Chars == {"a", " ", "\n"}
IsSpace(c) == c \in {" ", "\n"}

\* str.split() with no argument: maximal runs of non-whitespace characters.
RECURSIVE SplitFrom(_, _, _)
SplitFrom(s, words, cur) ==
    IF s = <<>> THEN (IF cur = <<>> THEN words ELSE Append(words, cur))
    ELSE IF IsSpace(Head(s))
         THEN SplitFrom(Tail(s), IF cur = <<>> THEN words ELSE Append(words, cur), <<>>)
         ELSE SplitFrom(Tail(s), words, Append(cur, Head(s)))

split(s) == SplitFrom(s, <<>>, <<>>)

\* The for loop of lines 69-74 and the final flush of lines 75-76.
RECURSIVE ChunkLoop(_, _, _, _)
ChunkLoop(words, acc, current, max) ==
    IF words = <<>>
    THEN (IF current # <<>> THEN Append(acc, current) ELSE acc)
    ELSE LET word == Head(words) IN
         IF Len(current) + Len(word) + 1 > max
         THEN ChunkLoop(Tail(words), Append(acc, current), word, max)
         ELSE ChunkLoop(Tail(words), acc,
                        IF current # <<>> THEN current \o <<" ">> \o word ELSE word,
                        max)

chunk_text(t, max) == ChunkLoop(split(t), <<>>, <<>>, max)

ChunkIdle == text = <<>> /\ max_chunk_size = 0 /\ chunks = <<>> /\ cpc = "idle"

ChunkInit ==
    /\ text \in SeqsUpTo(Chars, MaxTextLen)
    /\ max_chunk_size \in 1..MaxChunkSize
    /\ chunks = <<>>
    /\ cpc = "call"

ChunkText ==
    /\ cpc = "call"
    /\ chunks' = chunk_text(text, max_chunk_size)
    /\ cpc' = "done"
    /\ UNCHANGED <<text, max_chunk_size>>
    /\ UNCHANGED <<parseVars, genVars, deployVars, uploadVars>>

\* C4: no chunk returned by chunk_text is longer than the maximum chunk size,
\* for every input text and maximum (a word as long as or longer than the
\* maximum included).
C4_NoChunkExceedsMax ==
    cpc = "done" => \A i \in 1..Len(chunks) : Len(chunks[i]) <= max_chunk_size

\* C5: every chunk returned by chunk_text is non-empty, and the result is the
\* empty sequence exactly when the input has no words.
C5_ChunksNonEmpty ==
    cpc = "done" =>
        /\ \A i \in 1..Len(chunks) : chunks[i] # <<>>
        /\ (chunks = <<>>) <=> (\A i \in 1..Len(text) : IsSpace(text[i]))

(***************************************************************************)
(* Response texts and Python values                                        *)
(*                                                                         *)
(* A response text is a sequence of lexemes: the JSON punctuation, the two *)
(* quote characters, the code fence, white space, and words.  A Python     *)
(* value is a record [t, s, keys, items]: t its type, s the lexemes of a   *)
(* str or number, keys/items the insertion-ordered pairs of a dict, items  *)
(* the elements of a list.                                                 *)
(***************************************************************************)
DQ == "\""
SQ == "'"
\* The lexeme of a code fence, three backquotes.
FENCE == "<fence>"
NL == "\n"
SP == " "

IsWs(tok) == tok \in {SP, NL}

PyVal(t, s, keys, items) == [t |-> t, s |-> s, keys |-> keys, items |-> items]
None == PyVal("None", <<>>, <<>>, <<>>)
Str(s) == PyVal("str", s, <<>>, <<>>)
Num(s) == PyVal("int", s, <<>>, <<>>)
Lit(t) == PyVal(t, <<>>, <<>>, <<>>)
List(items) == PyVal("list", <<>>, <<>>, items)
Dict(keys, items) == PyVal("dict", <<>>, keys, items)

IndexOf(s, x) == IF \E i \in 1..Len(s) : s[i] = x
                 THEN CHOOSE i \in 1..Len(s) : s[i] = x /\ \A j \in 1..(i-1) : s[j] # x
                 ELSE 0

\* d[k] = v on a dict: an existing key keeps its place, a new key is appended.
DictSet(d, k, v) ==
    LET i == IndexOf(d.keys, k) IN
    IF i = 0 THEN Dict(Append(d.keys, k), Append(d.items, v))
    ELSE Dict(d.keys, [d.items EXCEPT ![i] = v])

DictHas(d, k) == IndexOf(d.keys, k) # 0
DictGet(d, k) == d.items[IndexOf(d.keys, k)]

(***************************************************************************)
(* json.loads (src/main.py 132): a recursive-descent parser of the JSON    *)
(* grammar over lexemes.  A parse step yields [ok, v, pos]; Fail is        *)
(* json.JSONDecodeError.                                                   *)
(***************************************************************************)
Fail == [ok |-> FALSE, v |-> None, pos |-> 0]
Ok(v, pos) == [ok |-> TRUE, v |-> v, pos |-> pos]

RECURSIVE SkipWs(_, _)
SkipWs(toks, i) == IF i <= Len(toks) /\ IsWs(toks[i]) THEN SkipWs(toks, i + 1) ELSE i

At(toks, i, tok) == i <= Len(toks) /\ toks[i] = tok

\* A string: from the opening quote at i to the next quote; a raw newline
\* inside is an invalid control character.
ParseString(toks, i) ==
    IF ~At(toks, i, DQ) THEN Fail
    ELSE LET closing == {j \in (i+1)..Len(toks) : toks[j] = DQ} IN
         IF closing = {} THEN Fail
         ELSE LET j == CHOOSE c \in closing : \A k \in closing : c <= k IN
              IF \E k \in (i+1)..(j-1) : toks[k] = NL THEN Fail
              ELSE Ok(Str(SubSeq(toks, i + 1, j - 1)), j + 1)

RECURSIVE ParseValue(_, _)
RECURSIVE ParseMembers(_, _, _)
RECURSIVE ParseElements(_, _, _)

\* The members of an object, i at the place where a key is expected.
ParseMembers(toks, i, d) ==
    LET k == ParseString(toks, i) IN
    IF ~k.ok THEN Fail
    ELSE LET c == SkipWs(toks, k.pos) IN
         IF ~At(toks, c, ":") THEN Fail
         ELSE LET v == ParseValue(toks, SkipWs(toks, c + 1)) IN
              IF ~v.ok THEN Fail
              ELSE LET e == SkipWs(toks, v.pos)
                       d2 == DictSet(d, k.v.s, v.v)
                   IN  IF At(toks, e, "}") THEN Ok(d2, e + 1)
                       ELSE IF At(toks, e, ",") THEN ParseMembers(toks, SkipWs(toks, e + 1), d2)
                       ELSE Fail

\* The elements of an array, i at the place where a value is expected.
ParseElements(toks, i, items) ==
    LET v == ParseValue(toks, i) IN
    IF ~v.ok THEN Fail
    ELSE LET e == SkipWs(toks, v.pos)
             items2 == Append(items, v.v)
         IN  IF At(toks, e, "]") THEN Ok(List(items2), e + 1)
             ELSE IF At(toks, e, ",") THEN ParseElements(toks, SkipWs(toks, e + 1), items2)
             ELSE Fail

ParseValue(toks, i) ==
    IF i > Len(toks) THEN Fail
    ELSE IF toks[i] = DQ THEN ParseString(toks, i)
    ELSE IF toks[i] = "{"
         THEN LET j == SkipWs(toks, i + 1) IN
              IF At(toks, j, "}") THEN Ok(Dict(<<>>, <<>>), j + 1)
              ELSE ParseMembers(toks, j, Dict(<<>>, <<>>))
    ELSE IF toks[i] = "["
         THEN LET j == SkipWs(toks, i + 1) IN
              IF At(toks, j, "]") THEN Ok(List(<<>>), j + 1)
              ELSE ParseElements(toks, j, <<>>)
    ELSE IF toks[i] = "1" THEN Ok(Num(<<"1">>), i + 1)
    ELSE IF toks[i] \in {"true", "false"} THEN Ok(Lit("bool"), i + 1)
    ELSE IF toks[i] = "null" THEN Ok(None, i + 1)
    ELSE Fail

\* json.loads: one value, white space around it, nothing after it.
json_loads(toks) ==
    LET v == ParseValue(toks, SkipWs(toks, 1)) IN
    IF v.ok /\ SkipWs(toks, v.pos) = Len(toks) + 1 THEN Ok(v.v, v.pos) ELSE Fail

(***************************************************************************)
(* get_default_code, get_fallback_portfolio (src/main.py 149-203)          *)
(***************************************************************************)
required_fields == <<"html_code", "css_code", "js_code">>

\* The built-in default of each file type, one lexeme each.
get_default_code(field_type) ==
    CASE field_type = "html_code" -> Str(<<"<default index.html>">>)
      [] field_type = "css_code"  -> Str(<<"<default style.css>">>)
      [] field_type = "js_code"   -> Str(<<"<default script.js>">>)
      [] OTHER                    -> Str(<<"// Default code">>)

get_fallback_portfolio ==
    Dict(<< <<"html_code">>, <<"css_code">>, <<"js_code">> >>,
         << get_default_code("html_code"), get_default_code("css_code"),
            get_default_code("js_code") >>)

(***************************************************************************)
(* safe_parse_llm_json (src/main.py 96-147)                                *)
(***************************************************************************)
RECURSIVE LStrip(_)
LStrip(s) == IF s # <<>> /\ IsWs(Head(s)) THEN LStrip(Tail(s)) ELSE s
RECURSIVE RStrip(_)
RStrip(s) == IF s # <<>> /\ IsWs(s[Len(s)]) THEN RStrip(SubSeq(s, 1, Len(s) - 1)) ELSE s
strip(s) == RStrip(LStrip(s))

LastIndexOf(s, x) == IF \E i \in 1..Len(s) : s[i] = x
                     THEN CHOOSE i \in 1..Len(s) : s[i] = x /\ \A j \in (i+1)..Len(s) : s[j] # x
                     ELSE 0

\* Lines 105-117: drop the opening fence line and a trailing fence.
StripFence(s) ==
    IF s # <<>> /\ Head(s) = FENCE
    THEN LET nl == IndexOf(s, NL)
             body == IF nl # 0 THEN SubSeq(s, nl + 1, Len(s)) ELSE s
         IN  IF body # <<>> /\ body[Len(body)] = FENCE
             THEN strip(SubSeq(body, 1, Len(body) - 1))
             ELSE body
    ELSE s

\* Lines 120-124: the span from the first "{" to the last "}".
SliceBraces(s) ==
    LET json_start == IndexOf(s, "{")
        json_end == LastIndexOf(s, "}")
    IN  IF json_start # 0 /\ json_end >= json_start
        THEN SubSeq(s, json_start, json_end)
        ELSE s

\* Lines 128-129: single quotes become double quotes when there is no double quote.
FixQuotes(s) ==
    IF SQ \in Range(s) /\ DQ \notin Range(s)
    THEN [i \in 1..Len(s) |-> IF s[i] = SQ THEN DQ ELSE s[i]]
    ELSE s

Clean(t) == FixQuotes(SliceBraces(StripFence(strip(t))))

Return(v) == [kind |-> "return", v |-> v]
Raise(kind) == [kind |-> kind, v |-> None]

\* `field not in parsed_json`: key membership on a dict, element membership on
\* a list, substring on a str; any other type is not iterable (TypeError).
SupportsIn(v) == v.t \in {"dict", "list", "str"}
Contains(v, field) ==
    CASE v.t = "dict" -> DictHas(v, <<field>>)
      [] v.t = "list" -> \E i \in 1..Len(v.items) : v.items[i] = Str(<<field>>)
      [] v.t = "str"  -> field \in Range(v.s)
      [] OTHER        -> FALSE

\* Lines 135-140: the loop over required_fields, from field number i on.
RECURSIVE ValidateFrom(_, _)
ValidateFrom(v, i) ==
    IF i > Len(required_fields) THEN Return(v)
    ELSE LET field == required_fields[i] IN
         IF ~SupportsIn(v) THEN Raise("TypeError")
         ELSE IF Contains(v, field) THEN ValidateFrom(v, i + 1)
         ELSE IF v.t = "dict"
              THEN ValidateFrom(DictSet(v, <<field>>, get_default_code(field)), i + 1)
              ELSE Raise("TypeError")

HasAllFields(v) == v.t = "dict" /\ \A i \in 1..Len(required_fields) : DictHas(v, <<required_fields[i]>>)

\* A validation that gives up on an incomplete object: the whole fallback
\* instead of the missing keys' defaults.
FillDefaultsWholeFallback(v) ==
    IF HasAllFields(v) THEN Return(v) ELSE Return(get_fallback_portfolio)

FillDefaults(v) == ValidateFrom(v, 1)

safe_parse_llm_json(t) ==
    IF strip(t) = <<>> THEN Raise("HTTPException")
    ELSE LET parsed == json_loads(Clean(t)) IN
         IF parsed.ok THEN FillDefaults(parsed.v)
         ELSE Return(get_fallback_portfolio)

(***************************************************************************)
(* SpecParse: safe_parse_llm_json applied to a response text.  A text is   *)
(* a body (an object of up to MaxPairs pairs, in double or in single       *)
(* quotes, or one of OtherBodies) between a prefix and a suffix.           *)
(***************************************************************************)
MaxPairs == 3

ObjKeys == {"html_code", "css_code", "js_code", "title"}
PairValue(i) == IF i % 2 = 1 THEN "a" ELSE "b"

RECURSIVE RenderPairs(_, _, _)
RenderPairs(ks, i, q) ==
    IF i > Len(ks) THEN <<>>
    ELSE (IF i > 1 THEN <<",">> ELSE <<>>)
         \o <<q, ks[i], q, ":", SP, q, PairValue(i), q>>
         \o RenderPairs(ks, i + 1, q)

RenderObject(ks, q) == <<"{">> \o RenderPairs(ks, 1, q) \o <<"}">>

ObjectBodies == {RenderObject(ks, q) : ks \in SeqsUpTo(ObjKeys, MaxPairs), q \in {DQ, SQ}}

OtherBodies == {
    <<>>,
    <<"not", SP, "json", SP, "at", SP, "all">>,
    <<"1">>,
    <<"true">>,
    <<"null">>,
    <<DQ, "a", DQ>>,
    <<DQ, "html_code", SP, "css_code", SP, "js_code", DQ>>,
    <<"[", "]">>,
    <<"[", DQ, "html_code", DQ, ",", DQ, "css_code", DQ, ",", DQ, "js_code", DQ, "]">>,
    <<"{", DQ, "html_code", DQ, ":", "1", ",", DQ, "title", DQ, ":", "[", "]", "}">>,
    <<"{", DQ, "html_code", DQ, ":", DQ, "it", SQ, "s", DQ, "}">>,
    <<"{", SQ, "html_code", SQ, ":", SQ, "it", SQ, "s", SQ, "}">>,
    <<"{", DQ, "css_code", DQ, ":", "{", DQ, "a", DQ, ":", "null", "}", "}">>,
    <<"{", DQ, "html_code", DQ, ":", DQ, "a", DQ, ",", "}">>,
    <<"{", "html_code", ":", DQ, "a", DQ, "}">> }

Prefixes == { <<>>, <<FENCE, "json", NL>>, <<FENCE>>, <<"Here", SP, "it", SP, "is", ":", NL>>, <<SP>> }
Suffixes == { <<>>, <<NL, FENCE>>, <<NL, "Enjoy">>, <<NL>> }

ResponseTexts == {p \o b \o s : p \in Prefixes, b \in ObjectBodies \cup OtherBodies, s \in Suffixes}

ParseIdle == raw = <<>> /\ parsed_json = Fail /\ presult = Raise("none") /\ ppc = "idle"

ParseInit ==
    /\ raw \in ResponseTexts
    /\ parsed_json = Fail
    /\ presult = Raise("none")
    /\ ppc = "call"

\* One call of safe_parse_llm_json(raw); parsed_json is the value of line 132.
SafeParse ==
    /\ ppc = "call"
    /\ parsed_json' = (IF strip(raw) = <<>> THEN Fail ELSE json_loads(Clean(raw)))
    /\ presult' = safe_parse_llm_json(raw)
    /\ ppc' = "done"
    /\ UNCHANGED raw
    /\ UNCHANGED <<chunkVars, genVars, deployVars, uploadVars>>

\* C3: for every non-empty raw response text, safe_parse_llm_json either
\* returns a mapping with the three keys html_code, css_code and js_code or
\* fails with the model-output error (HTTPException); no other error escapes
\* and nothing but such a mapping is returned.
C3_MappingOrModelOutputError ==
    (ppc = "done" /\ raw # <<>>) =>
        \/ presult.kind = "return" /\ HasAllFields(presult.v)
        \/ presult.kind = "HTTPException"

\* C8: when the cleaned text parses to a JSON object, the result keeps every
\* pair of the object unchanged and adds, for each missing required key only,
\* get_default_code of that key; an object with all three keys is returned
\* unchanged.
C8_PartialRecovery ==
    (ppc = "done" /\ parsed_json.ok /\ parsed_json.v.t = "dict") =>
        LET obj == parsed_json.v
            res == presult.v
            missing == {<<required_fields[i]>> : i \in {j \in 1..Len(required_fields) :
                                                        ~DictHas(obj, <<required_fields[j]>>)}}
        IN  /\ presult.kind = "return"
            /\ res.t = "dict"
            /\ Len(res.keys) = Len(obj.keys) + Cardinality(missing)
            /\ \A i \in 1..Len(obj.keys) : res.keys[i] = obj.keys[i] /\ res.items[i] = obj.items[i]
            /\ \A k \in missing : DictHas(res, k) /\ DictGet(res, k) = get_default_code(k[1])
            /\ (missing = {} => res = obj)

\* C8's case: an object with a foreign key and only some required keys was
\* parsed and completed.
C8_Witness ==
    /\ ppc = "done" /\ parsed_json.ok /\ parsed_json.v.t = "dict"
    /\ DictHas(parsed_json.v, <<"title">>)
    /\ DictHas(parsed_json.v, <<"css_code">>)
    /\ ~DictHas(parsed_json.v, <<"html_code">>)
    /\ ~DictHas(parsed_json.v, <<"js_code">>)
    /\ FENCE \in Range(raw)
    /\ presult.kind = "return"

(***************************************************************************)
(* generate_code_from_summary (src/main.py 205-257)                        *)
(*                                                                         *)
(* script[n] is what the generation capability does on its n-th call:      *)
(* client.chat.completions.create raises, or the message content is None,  *)
(* or it is a text.  One action is one iteration of the retry loop.        *)
(***************************************************************************)
\* A loop that stops one attempt short: range(max_retries - 1).
max_retries_one_short == 3 - 1

max_retries == 3

CapRaise == [kind |-> "raise", text |-> <<>>]
CapNone == [kind |-> "none", text |-> <<>>]
CapText(t) == [kind |-> "content", text |-> t]

\* The object a rendering of three pairs stands for.
ExpectedObject(ks) ==
    Dict([i \in 1..Len(ks) |-> <<ks[i]>>], [i \in 1..Len(ks) |-> Str(<<PairValue(i)>>)])

ValidKeyOrders == { <<"html_code", "css_code", "js_code">>, <<"js_code", "html_code", "css_code">> }
ValidTexts == {RenderObject(ks, DQ) : ks \in ValidKeyOrders}
ExpectedOf(t) == ExpectedObject(CHOOSE ks \in ValidKeyOrders : RenderObject(ks, DQ) = t)

GenTexts == ValidTexts \cup
    { <<>>, <<SP, NL>>, <<"1">>,
      <<FENCE, "json", NL>> \o RenderObject(<<"html_code">>, SQ) \o <<NL, FENCE>>,
      <<"not", SP, "json", SP, "at", SP, "all">> }

CapOutcomes == {CapRaise, CapNone} \cup {CapText(t) : t \in GenTexts}

GenIdle == script = <<>> /\ attempt = 0 /\ calls = 0 /\ gresult = Raise("pending") /\ gpc = "idle"

GenInit ==
    /\ script \in [1..(max_retries + 1) -> CapOutcomes]
    /\ attempt = 0
    /\ calls = 0
    /\ gresult = Raise("pending")
    /\ gpc = "loop"

\* What one iteration does with the capability's outcome o: "return" with a
\* value, "except" (the handler of lines 252-257) or "continue" (line 248).
AttemptStep(o) ==
    IF o.kind \in {"raise", "none"} THEN [step |-> "except", v |-> None]
    ELSE LET response_text == strip(o.text) IN
         IF response_text = <<>> THEN [step |-> "continue", v |-> None]
         ELSE LET r == safe_parse_llm_json(response_text) IN
              IF r.kind = "return" THEN [step |-> "return", v |-> r.v]
              ELSE [step |-> "except", v |-> None]

\* One iteration of `for attempt in range(max_retries)`; falling out of the
\* loop ends the function with no return statement, that is, with None.
GenAttempt ==
    /\ gpc = "loop"
    /\ attempt < max_retries
    /\ LET s == AttemptStep(script[calls + 1])
           last == (attempt = max_retries - 1)
       IN  /\ calls' = calls + 1
           /\ \/ /\ s.step = "return"
                 /\ gresult' = Return(s.v)
                 /\ gpc' = "done"
                 /\ UNCHANGED attempt
              \/ /\ s.step = "except"
                 /\ IF last
                    THEN gresult' = Return(get_fallback_portfolio) /\ gpc' = "done"
                         /\ UNCHANGED attempt
                    ELSE attempt' = attempt + 1 /\ UNCHANGED <<gresult, gpc>>
              \/ /\ s.step = "continue"
                 /\ attempt' = attempt + 1
                 /\ IF last
                    THEN gresult' = Return(None) /\ gpc' = "done"
                    ELSE UNCHANGED <<gresult, gpc>>
    /\ UNCHANGED script
    /\ UNCHANGED <<chunkVars, parseVars, deployVars, uploadVars>>

Unusable(o) == o.kind \in {"raise", "none"} \/ strip(o.text) = <<>>

\* C1: when each of the three attempts raises or returns empty text, in any
\* combination and order, generate_code_from_summary returns the fixed
\* fallback portfolio; it never returns an absent value and never raises.
C1_ExhaustionGivesFallback ==
    (gpc = "done" /\ \A i \in 1..max_retries : Unusable(script[i])) =>
        gresult = Return(get_fallback_portfolio)

RaisesFirst(k) == \A i \in 1..k : script[i] = CapRaise

\* C2: for every k in {0,1,2}, if the capability raises on its first k calls
\* and returns the text of a JSON object with the three keys on call k+1, the
\* capability is never invoked more than k+1 times and the call ends with
\* that object after exactly k+1 invocations.
C2_RetryThenSuccess ==
    \A k \in 0..2 :
        (RaisesFirst(k) /\ script[k + 1].kind = "content" /\ script[k + 1].text \in ValidTexts) =>
            /\ calls <= k + 1
            /\ gpc = "done" => (calls = k + 1 /\ gresult = Return(ExpectedOf(script[k + 1].text)))
            /\ calls = k + 1 => gpc = "done"

\* C2's case: two raises, then the object on the third and last attempt.
C2_Witness ==
    /\ gpc = "done"
    /\ RaisesFirst(2)
    /\ script[3].kind = "content" /\ script[3].text \in ValidTexts
    /\ calls = 3
    /\ gresult = Return(ExpectedOf(script[3].text))

(***************************************************************************)
(* Deployment: POST /deploy-site/ with main.py's deploy_html_code          *)
(* (src/main.py 38-55) and deployer.py's deploy_html_code                  *)
(* (src/deployer.py 7-30).                                                 *)
(*                                                                         *)
(* A client either posts to /deploy-site/ (DeploySite: the handler has no  *)
(* await, it runs to its end in one step) or calls                         *)
(* deployer.deploy_html_code, a blocking function whose file writes and    *)
(* subprocess are separate steps.  dfs is the file system: the content of  *)
(* each file of each directory.                                            *)
(***************************************************************************)
NumClients == 2

Clients == 1..NumClients
Sites == { <<"<html>1", "css 1", "js 1">>, <<"<html>2", "css 2", "js 2">> }
Absent == "<absent>"
FileNames == <<"index.html", "style.css", "script.js">>
SiteIds == {"1a2b3c4d", "9f8e7d6c"}
NoDir == "<none>"
DEPLOY_BASE_DIR == "uploads"
folder == "deployed_site"
\* os.path.join(DEPLOY_BASE_DIR, site_id)
site_dir(id) == IF id = "1a2b3c4d" THEN "uploads/1a2b3c4d" ELSE "uploads/9f8e7d6c"
Dirs == {folder} \cup {site_dir(id) : id \in SiteIds}
EmptyDir == [f \in Range(FileNames) |-> Absent]

MARKER == "Website URL:"
\* What the netlify command can print: lines of lexemes.
Stdouts == {
    <<>>,
    << <<"Deploying", SP, "to", SP, "main", SP, "site">> >>,
    << <<"Deploying">>, <<MARKER, SP, "https://site.example">>, <<"done">> >>,
    << <<SP, MARKER, SP, "https://a.example", SP>>, <<MARKER, "https://b.example">> >> }
ExitCodes == {0, 1}
NotRun == [ran |-> FALSE, returncode |-> 0, stdout |-> <<>>, handed |-> EmptyDir]

DeployIdle ==
    /\ dsite = <<>> /\ dfs = <<>> /\ dresp = <<>> /\ dpc = <<>>
    /\ site_id = <<>> /\ netlify = <<>>

Pending == [via |-> "none", kind |-> "pending", url |-> <<>>]

DeployInit ==
    /\ dsite \in [Clients -> Sites]
    /\ dfs = [d \in Dirs |-> EmptyDir]
    /\ dresp = [c \in Clients |-> Pending]
    /\ dpc = [c \in Clients |-> "start"]
    /\ site_id = [c \in Clients |-> NoDir]
    /\ netlify = [c \in Clients |-> NotRun]

\* The files of directory d after the first n files of site s were written.
WriteFiles(fs, d, s, n) ==
    [fs EXCEPT ![d] = [f \in Range(FileNames) |->
        IF \E i \in 1..n : FileNames[i] = f
        THEN s[CHOOSE i \in 1..n : FileNames[i] = f]
        ELSE fs[d][f]]]

\* main.py's deploy_html_code (lines 38-47): always the directory `folder`,
\* always the same URL; no command is run.  An open() that fails after
\* `written` files raises OSError.
deploy_html_code(fs, s, written) ==
    [fs |-> WriteFiles(fs, folder, s, written),
     raised |-> written < Len(FileNames),
     url |-> <<"https://example.netlify.app">>]

\* POST /deploy-site/ (lines 49-55): {"url": url}, or 500 on any exception.
DeploySite(c) ==
    /\ dpc[c] = "start"
    /\ \E unwritten \in 0..Len(FileNames) :
         LET r == deploy_html_code(dfs, dsite[c], Len(FileNames) - unwritten) IN
         /\ dfs' = r.fs
         /\ dresp' = [dresp EXCEPT ![c] =
                IF r.raised THEN [via |-> "route", kind |-> "500", url |-> <<>>]
                ELSE [via |-> "route", kind |-> "200", url |-> r.url]]
    /\ site_id' = [site_id EXCEPT ![c] = folder]
    /\ dpc' = [dpc EXCEPT ![c] = "done"]
    /\ UNCHANGED <<dsite, netlify>>
    /\ UNCHANGED <<chunkVars, parseVars, genVars, uploadVars>>

\* deployer.py lines 8-10: site_id = str(uuid.uuid4())[:8], a random
\* identifier: any of SiteIds, also one another call drew.
DeployerMkdir(c) ==
    /\ dpc[c] = "start"
    /\ \E id \in SiteIds : site_id' = [site_id EXCEPT ![c] = site_dir(id)]
    /\ dresp' = [dresp EXCEPT ![c] = [via |-> "deployer", kind |-> "pending", url |-> <<>>]]
    /\ dpc' = [dpc EXCEPT ![c] = FileNames[1]]
    /\ UNCHANGED <<dsite, dfs, netlify>>
    /\ UNCHANGED <<chunkVars, parseVars, genVars, uploadVars>>

\* deployer.py lines 12-19: the three files are written one after the other;
\* dpc names the file to write next.
DeployerWrite(c) ==
    /\ \E n \in 1..Len(FileNames) :
         /\ dpc[c] = FileNames[n]
         /\ dfs' = [dfs EXCEPT ![site_id[c]][FileNames[n]] = dsite[c][n]]
         /\ dpc' = [dpc EXCEPT ![c] = IF n = Len(FileNames) THEN "run" ELSE FileNames[n + 1]]
    /\ UNCHANGED <<dsite, dresp, site_id, netlify>>
    /\ UNCHANGED <<chunkVars, parseVars, genVars, uploadVars>>

\* line.split("Website URL:")[-1].strip()
UrlOfLine(line) == strip(SubSeq(line, LastIndexOf(line, MARKER) + 1, Len(line)))

\* Lines 26-30: the first line with the marker, or no URL.
ParseStdout(stdout) ==
    LET hits == {i \in 1..Len(stdout) : MARKER \in Range(stdout[i])} IN
    IF hits = {} THEN [kind |-> "Exception", url |-> <<>>]
    ELSE [kind |-> "return", url |-> UrlOfLine(stdout[CHOOSE i \in hits : \A j \in hits : i <= j])]

\* deployer.py lines 21-30: subprocess.run(..., check=True) on the directory
\* as it is now, then the scan of its standard output.
DeployerRun(c) ==
    /\ dpc[c] = "run"
    /\ \E rc \in ExitCodes, out \in Stdouts :
         /\ netlify' = [netlify EXCEPT ![c] =
                [ran |-> TRUE, returncode |-> rc, stdout |-> out, handed |-> dfs[site_id[c]]]]
         /\ dresp' = [dresp EXCEPT ![c] =
                IF rc # 0 THEN [via |-> "deployer", kind |-> "CalledProcessError", url |-> <<>>]
                ELSE [via |-> "deployer"] @@ ParseStdout(out)]
    /\ dpc' = [dpc EXCEPT ![c] = "done"]
    /\ UNCHANGED <<dsite, dfs, site_id>>
    /\ UNCHANGED <<chunkVars, parseVars, genVars, uploadVars>>

\* C6: two deploy calls reached through POST /deploy-site/ do not overwrite
\* each other's index.html, style.css or script.js: whatever the other call
\* did, the three files in the directory of a served request are the three
\* strings that request was given.
C6_DeployIsolation ==
    \A c \in Clients :
        (dresp[c].via = "route" /\ dresp[c].kind = "200") =>
            \A n \in 1..Len(FileNames) : dfs[site_id[c]][FileNames[n]] = dsite[c][n]

\* C7: a deploy request answers with a URL only when the external command
\* ran, exited with status zero and printed a line with "Website URL:", the
\* URL being the trimmed text after the marker.
C7_UrlOnlyAfterCommand ==
    \A c \in Clients :
        (dresp[c].via = "route" /\ dresp[c].kind = "200") =>
            /\ netlify[c].ran
            /\ netlify[c].returncode = 0
            /\ ParseStdout(netlify[c].stdout).kind = "return"
            /\ dresp[c].url = ParseStdout(netlify[c].stdout).url

(***************************************************************************)
(* POST /upload-resume/ (src/main.py 259-329)                              *)
(*                                                                         *)
(* The handler runs on the event loop and yields once, at                  *)
(* `await file.read()` (line 272), with the temporary file open: Begin is  *)
(* the code up to that await, Finish the code after it.  ufs maps a path   *)
(* of temp_files/ to its inode (0: no such file), inode gives each         *)
(* inode's bytes, handle the inode a request's open file refers to.        *)
(***************************************************************************)
NumUploads == 2

Uploads == 1..NumUploads
\* file.filename as (stem, extension).
FileNamesUp == { <<"cv", ".pdf">>, <<"cv", ".DOCX">>, <<"notes", ".txt">> }
\* Document bytes: "A", "B" are text, " " is blank, "!" makes the document
\* unreadable for pdfplumber / python-docx.
Docs == { <<"A">>, <<"B", "B">>, <<" ">>, <<"!">> }

lower(ext) == CASE ext = ".PDF" -> ".pdf" [] ext = ".DOCX" -> ".docx" [] OTHER -> ext
\* path = f"temp_files/{file.filename}"
TempPath(filename) == filename
Paths == {TempPath(f) : f \in FileNamesUp}

NotRead == [kind |-> "none", bytes |-> <<>>]

UploadIdle ==
    /\ upload = <<>> /\ upath = <<>> /\ inode = <<>> /\ handle = <<>> /\ ufs = <<>>
    /\ upc = <<>> /\ uresp = <<>> /\ uread = <<>> /\ uleft = <<>>

UploadInit ==
    /\ upload \in [Uploads -> [filename : FileNamesUp, content : Docs]]
    /\ upath = [r \in Uploads |-> <<>>]
    /\ inode = [i \in Uploads |-> <<>>]
    /\ handle = [r \in Uploads |-> 0]
    /\ ufs = [p \in Paths |-> 0]
    /\ upc = [r \in Uploads |-> "start"]
    /\ uresp = [r \in Uploads |-> "pending"]
    /\ uread = [r \in Uploads |-> NotRead]
    /\ uleft = [r \in Uploads |-> [created |-> FALSE, left |-> FALSE]]

\* Lines 262-272: the extension check, then open(path, "wb"), which creates
\* the file or truncates the one that is there, up to the await.
UploadBegin(r) ==
    /\ upc[r] = "start"
    /\ LET ext == lower(upload[r].filename[2])
           path == TempPath(upload[r].filename)
       IN  IF ext \notin {".pdf", ".docx"}
           THEN /\ uresp' = [uresp EXCEPT ![r] = "400 Only PDF and DOCX are allowed"]
                /\ upc' = [upc EXCEPT ![r] = "done"]
                /\ UNCHANGED <<upath, inode, handle, ufs, uleft>>
           ELSE LET i == IF ufs[path] # 0 THEN ufs[path] ELSE r IN
                /\ ufs' = [ufs EXCEPT ![path] = i]
                /\ inode' = [inode EXCEPT ![i] = <<>>]
                /\ handle' = [handle EXCEPT ![r] = i]
                /\ upath' = [upath EXCEPT ![r] = path]
                /\ uleft' = [uleft EXCEPT ![r].created = TRUE]
                /\ upc' = [upc EXCEPT ![r] = "reading"]
                /\ UNCHANGED uresp
    /\ UNCHANGED <<upload, uread>>
    /\ UNCHANGED <<chunkVars, parseVars, genVars, deployVars>>

\* f.write(content) on a file opened at offset 0.
WriteAt0(old, content) == content \o SubSeq(old, Len(content) + 1, Len(old))

\* extract_text_from_pdf / extract_text_from_docx on the bytes of the file.
Unreadable(bytes) == bytes = <<>> \/ "!" \in Range(bytes)
Blank(txt) == \A i \in 1..Len(txt) : IsWs(txt[i])

\* Lines 272-323, after the await: the save (which may fail while reading or
\* writing), the extraction with its finally clause, the empty-text check and
\* the LLM stage.
UploadFinish(r) ==
    /\ upc[r] = "reading"
    /\ LET path == upath[r] IN
       \E save \in {"ok", "read fails", "write fails"}, llm \in {"200", "500 GROQ_API_KEY not configured"} :
         IF save # "ok"
         THEN /\ uresp' = [uresp EXCEPT ![r] = "500 Failed to save file"]
              /\ uleft' = [uleft EXCEPT ![r].left = (ufs[path] # 0)]
              /\ UNCHANGED <<inode, ufs, uread>>
         ELSE LET written == [inode EXCEPT ![handle[r]] = WriteAt0(@, upload[r].content)]
                  exists == ufs[path] # 0
                  bytes == IF exists THEN written[ufs[path]] ELSE <<>>
                  failed == ~exists \/ Unreadable(bytes)
              IN  /\ inode' = written
                  /\ uread' = [uread EXCEPT ![r] =
                         IF exists THEN [kind |-> "bytes", bytes |-> bytes]
                         ELSE [kind |-> "missing", bytes |-> <<>>]]
                  \* finally: if os.path.exists(path): os.remove(path)
                  /\ ufs' = [ufs EXCEPT ![path] = 0]
                  /\ uleft' = [uleft EXCEPT ![r].left = FALSE]
                  /\ uresp' = [uresp EXCEPT ![r] =
                         IF failed THEN "500 Failed to extract text"
                         ELSE IF Blank(bytes) THEN "400 No text extracted from resume"
                         ELSE llm]
    /\ upc' = [upc EXCEPT ![r] = "done"]
    /\ UNCHANGED <<upload, upath, handle>>
    /\ UNCHANGED <<chunkVars, parseVars, genVars, deployVars>>

\* C9: each upload uses its own temporary file, so a request whose document
\* is readable and whose extraction ran read the file it wrote, exactly the
\* bytes it uploaded, whatever the other request did meanwhile.
C9_UploadIsolation ==
    \A r \in Uploads :
        (upc[r] = "done" /\ uread[r].kind # "none" /\ ~Unreadable(upload[r].content)) =>
            uread[r] = [kind |-> "bytes", bytes |-> upload[r].content]

\* C10: on every exit path taken after the temporary file was created, the
\* file no longer exists when the request has finished.
C10_TempFileRemoved ==
    \A r \in Uploads :
        (upc[r] = "done" /\ uleft[r].created) => ~uleft[r].left

(***************************************************************************)
(* Specifications                                                          *)
(***************************************************************************)
InitChunk == ChunkInit /\ ParseIdle /\ GenIdle /\ DeployIdle /\ UploadIdle
ChunkNext == ChunkText
SpecChunk == InitChunk /\ [][ChunkNext]_vars

InitParse == ChunkIdle /\ ParseInit /\ GenIdle /\ DeployIdle /\ UploadIdle
ParseNext == SafeParse
SpecParse == InitParse /\ [][ParseNext]_vars

InitGen == ChunkIdle /\ ParseIdle /\ GenInit /\ DeployIdle /\ UploadIdle
GenNext == GenAttempt
SpecGen == InitGen /\ [][GenNext]_vars

InitDeploy == ChunkIdle /\ ParseIdle /\ GenIdle /\ DeployInit /\ UploadIdle
DeployNext == \E c \in Clients : DeploySite(c) \/ DeployerMkdir(c) \/ DeployerWrite(c) \/ DeployerRun(c)
SpecDeploy == InitDeploy /\ [][DeployNext]_vars

InitUpload == ChunkIdle /\ ParseIdle /\ GenIdle /\ DeployIdle /\ UploadInit
UploadNext == \E r \in Uploads : UploadBegin(r) \/ UploadFinish(r)
SpecUpload == InitUpload /\ [][UploadNext]_vars
====
